---- MODULE Spec2Model ----
(***************************************************************************)
(* AsyncRedisClient: a pool of work threads, each owning a libuv loop and  *)
(* conn_per_thread hiredis connections.  Caller threads hand requests to a *)
(* work thread through its mutex-guarded request_vec and wake it with      *)
(* uv_async_send(); Stop()/Join() shut the pool down and join the threads. *)
(*                                                                         *)
(* The header (async_redis_client.h) holds the state, RedisRequest,        *)
(* WorkThread, GetStatus/SetStatus and JoinAllThread.  The bodies of       *)
(* Start, Execute, DoStopOrJoin, WorkThreadMain, OnAsyncHandle and         *)
(* OnRedisReply are only declared there; they are modelled from the        *)
(* design specification (sections 4.1, 4.2).                               *)
(***************************************************************************)
EXTENDS Integers, Sequences, FiniteSets, TLC

\* ---------------------------------------------------------------- bounds
MaxThreads == 2      \* thread_num ranges over 1..MaxThreads
WrapThreads == 3     \* thread_num at the wrap of seq_num: does not divide 2^SeqBits
MaxConns == 2        \* conn_per_thread ranges over 1..MaxConns
MaxReqs == 3         \* Execute calls per behaviour
MaxCycles == 2       \* Start calls per behaviour
NumCallers == 2      \* caller threads
LiveCycles == 1      \* Start calls per behaviour of FairSpec
SeqBits == 16        \* modelled width of seq_num (std::atomic_uint)

\* ------------------------------------------------------- program constants
\* enum class ClientStatus
kInitial == 0
kStarted == 1
kStop == 2
kJoin == 3
\* enum class WorkThreadStatus
kUnknown == 0
kExiting == 1
kRunning == 2

SeqMod == 2 ^ SeqBits

Callers == 1..NumCallers
MaxWorkers == IF WrapThreads > MaxThreads THEN WrapThreads ELSE MaxThreads
Workers == 0..(MaxWorkers - 1)
ReqIds == 1..MaxReqs
Conns == 0..(MaxConns - 1)

VARIABLES
    thread_num,       \* configuration, read-only after Start()
    conn_per_thread,  \* configuration, read-only after Start()
    status_,          \* std::atomic<ClientStatus>
    seq_num,          \* std::atomic_uint
    work_threads_,    \* worker index -> WorkThread fields
    thread,           \* worker index -> WorkThread::thread: "none", "joinable", "joined"
    wpc,              \* worker index -> position of the work thread
    handle_open,      \* worker index -> the uv_async_t is initialised and not closed
    async_pending,    \* worker index -> a uv_async_send() is pending on the loop
    batch,            \* worker index -> requests taken out of request_vec, not yet handled
    exit_op,          \* worker index -> client status seen at shutdown (kInitial: none)
    local_seq,        \* worker index -> connection round-robin counter
    inflight,         \* worker index -> connection -> requests sent, reply pending
    callers,          \* caller thread -> position in the call it is making
    reqs,             \* request id -> what happened to the request (history)
    rr_log,           \* worker chosen by each seq_num.fetch_add, in order (history)
    app_log,          \* worker index -> requests appended to request_vec, in order (history)
    disp_log,         \* worker index -> requests handed to a connection, in order (history)
    join_count,       \* worker index -> thread.join() calls in this cycle (history)
    bad_send,         \* a uv_async_send() reached a handle that is not open (history)
    lost_race,        \* a Stop()/Join() failed because another one was under way (history)
    nreq,             \* Execute calls made so far
    nstart            \* Start calls made so far

vars == <<thread_num, conn_per_thread, status_, seq_num, work_threads_, thread, wpc,
          handle_open, async_pending, batch, exit_op, local_seq, inflight,
          callers, reqs, rr_log, app_log, disp_log, join_count, bad_send,
          lost_race, nreq, nstart>>

\* ------------------------------------------------------------ WorkThread
\* request_vec is a unique_ptr: <<>> is nullptr, <<v>> owns the vector v.
NullVec == <<>>
NewVec(v) == <<v>>

\* Mutant of EmplaceBack: the new element goes to the front.
EmplaceFront(v, r) == <<r>> \o v

\* request_vec is a std::vector: a new element goes to the back.
EmplaceBack(v, r) == Append(v, r)

\* Mutant of WorkThread: status starts as kRunning.
WorkThreadBornRunning ==
    [started |-> FALSE, status |-> kRunning, async_handle |-> FALSE,
     request_vec |-> NullVec]

\* WorkThread's default member initialisers.
WorkThread ==
    [started |-> FALSE, status |-> kUnknown, async_handle |-> FALSE,
     request_vec |-> NullVec]

\* WorkThread::GetStatus(): the status field, read under mux.
WorkThreadGetStatus(wt) == wt.status

\* Mutant of AsyncSendUnlock: uv_async_send() without the null check.
AsyncSendUnchecked(wt) == TRUE

\* Mutant of AsyncSendUnlock: no uv_async_send() at all.
AsyncSendDropped(wt) == FALSE

\* WorkThread::AsyncSendUnlock(): uv_async_send() iff async_handle != nullptr.
\* Yields whether a send was issued.
AsyncSendUnlock(wt) == wt.async_handle

\* Mutant of AsyncSend: uv_async_send() whatever async_handle is.
AsyncSendAlways(wt) == TRUE

\* WorkThread::AsyncSend(): AsyncSendUnlock() between mux.lock() and mux.unlock().
AsyncSend(wt) == AsyncSendUnlock(wt)

\* ---------------------------------------------------------- RedisRequest
NoReq ==
    [by |-> 0, obs |-> -1, sn |-> -1, target |-> -1, appended |-> FALSE,
     snap |-> kInitial, conn |-> -1, lseq |-> -1, cbs |-> <<>>]

CallerThread(c) == <<"caller", c>>
WorkerThread(w) == <<"worker", w>>

\* How a callback invocation came about.
Invocation(reply, th, via) == [reply |-> reply, thread |-> th, via |-> via]

\* Mutant of Fail: the callback is left to work thread 0.
FailDeferred(rq, r, th, via) ==
    [rq EXCEPT ![r].cbs = Append(@, Invocation("null", <<"worker", 0>>, via))]

\* Mutant of Fail: the callback is not invoked.
FailSilent(rq, r, th, via) == rq

\* RedisRequest::Fail(): (*callback)(nullptr).
Fail(rq, r, th, via) ==
    [rq EXCEPT ![r].cbs = Append(@, Invocation("null", th, via))]

\* Mutant of Success: the callback is invoked twice.
SuccessTwice(rq, r, reply, th) ==
    [rq EXCEPT ![r].cbs = @ \o <<Invocation(reply, th, "reply"), Invocation(reply, th, "reply")>>]

\* Mutant of Success: the callback is handed to a caller's thread.
SuccessElsewhere(rq, r, reply, th) ==
    [rq EXCEPT ![r].cbs = Append(@, Invocation(reply, <<"caller", 1>>, "reply"))]

\* Mutant of Success: the callback is not invoked.
SuccessSilent(rq, r, reply, th) == rq

\* RedisRequest::Success(reply): (*callback)(reply).
Success(rq, r, reply, th) ==
    [rq EXCEPT ![r].cbs = Append(@, Invocation(reply, th, "reply"))]

\* ------------------------------------------------------ AsyncRedisClient
\* Mutant of GetStatus: always kStarted.
GetStatusStarted == kStarted

\* AsyncRedisClient::GetStatus(): status_.load().
GetStatus == status_

\* Mutant of SetStatus: kStarted is stored whatever the argument.
SetStatusStarted(s) == kStarted

\* AsyncRedisClient::SetStatus(): the value status_ holds after the store.
SetStatus(s) == s

Idle == [pc |-> "idle", req |-> 0, idx |-> 0, op |-> kInitial]

Init ==
    /\ thread_num \in 1..MaxThreads
    /\ conn_per_thread \in 1..MaxConns
    /\ status_ = kInitial
    /\ seq_num = 0
    /\ work_threads_ = [w \in Workers |-> WorkThread]
    /\ thread = [w \in Workers |-> "none"]
    /\ wpc = [w \in Workers |-> "none"]
    /\ handle_open = [w \in Workers |-> FALSE]
    /\ async_pending = [w \in Workers |-> FALSE]
    /\ batch = [w \in Workers |-> <<>>]
    /\ exit_op = [w \in Workers |-> kInitial]
    /\ local_seq = [w \in Workers |-> 0]
    /\ inflight = [w \in Workers |-> [k \in Conns |-> <<>>]]
    /\ callers = [c \in Callers |-> Idle]
    /\ reqs = [r \in ReqIds |-> NoReq]
    /\ rr_log = <<>>
    /\ app_log = [w \in Workers |-> <<>>]
    /\ disp_log = [w \in Workers |-> <<>>]
    /\ join_count = [w \in Workers |-> 0]
    /\ bad_send = FALSE
    /\ lost_race = FALSE
    /\ nreq = 0
    /\ nstart = 0

\* ------------------------------------------------------------------ Start
\* Start() is not thread-safe: it runs only while no other call is in progress.
Quiet == \A c \in Callers : callers[c].pc = "idle"
NoStart == \A c \in Callers : callers[c].pc # "start_wait"

\* Start(), first half: a fresh vector of thread_num WorkThreads, one thread each.
StartSpawn(c) ==
    /\ Quiet
    /\ status_ = kInitial
    /\ nstart < MaxCycles
    /\ nstart' = nstart + 1
    /\ work_threads_' = [w \in Workers |->
            IF w < thread_num THEN [WorkThread EXCEPT !.started = TRUE] ELSE WorkThread]
    /\ thread' = [w \in Workers |-> IF w < thread_num THEN "joinable" ELSE "none"]
    /\ wpc' = [w \in Workers |-> IF w < thread_num THEN "init" ELSE "none"]
    /\ handle_open' = [w \in Workers |-> FALSE]
    /\ async_pending' = [w \in Workers |-> FALSE]
    /\ batch' = [w \in Workers |-> <<>>]
    /\ exit_op' = [w \in Workers |-> kInitial]
    /\ local_seq' = [w \in Workers |-> 0]
    /\ inflight' = [w \in Workers |-> [k \in Conns |-> <<>>]]
    /\ join_count' = [w \in Workers |-> 0]
    /\ callers' = [callers EXCEPT ![c].pc = "start_wait"]
    /\ UNCHANGED <<thread_num, conn_per_thread, status_, seq_num, reqs, rr_log,
                   app_log, disp_log, bad_send, nreq, lost_race>>

\* Start(), second half: once every work thread has left kUnknown, kStarted.
StartDone(c) ==
    /\ callers[c].pc = "start_wait"
    /\ \A w \in Workers : w < thread_num => WorkThreadGetStatus(work_threads_[w]) # kUnknown
    /\ status_' = SetStatus(kStarted)
    /\ callers' = [callers EXCEPT ![c] = Idle]
    /\ UNCHANGED <<thread_num, conn_per_thread, seq_num, work_threads_, thread, wpc,
                   handle_open, async_pending, batch, exit_op, local_seq, inflight,
                   reqs, rr_log, app_log, disp_log, join_count, bad_send, nreq, nstart, lost_race>>

\* ---------------------------------------------------------------- Execute
\* Execute(): the status check.
ExecuteCheck(c) ==
    /\ callers[c].pc = "idle"
    /\ NoStart
    /\ nreq < MaxReqs
    /\ nreq' = nreq + 1
    /\ reqs' = [reqs EXCEPT ![nreq + 1].by = IF status_ = kStarted THEN 0 ELSE c,
                            ![nreq + 1].obs = status_]
    /\ callers' = [callers EXCEPT ![c] =
            [pc |-> IF GetStatus = kStarted THEN "exec_pick" ELSE "exec_reject",
             req |-> nreq + 1, idx |-> 0, op |-> kInitial]]
    /\ UNCHANGED <<thread_num, conn_per_thread, status_, seq_num, work_threads_, thread,
                   wpc, handle_open, async_pending, batch, exit_op, local_seq, inflight,
                   rr_log, app_log, disp_log, join_count, bad_send, nstart, lost_race>>

\* Execute(), status is not kStarted: callback(nullptr) on the caller's thread.
ExecuteReject(c) ==
    /\ callers[c].pc = "exec_reject"
    /\ reqs' = Fail(reqs, callers[c].req, CallerThread(c), "reject")
    /\ callers' = [callers EXCEPT ![c] = Idle]
    /\ UNCHANGED <<thread_num, conn_per_thread, status_, seq_num, work_threads_, thread,
                   wpc, handle_open, async_pending, batch, exit_op, local_seq, inflight,
                   rr_log, app_log, disp_log, join_count, bad_send, nreq, nstart, lost_race>>

\* The work thread a value of seq_num selects.
PickThread(sn) == sn % thread_num

\* Execute(): seq_num.fetch_add(1), then the target work thread.
ExecutePick(c) ==
    /\ callers[c].pc = "exec_pick"
    /\ seq_num' = (seq_num + 1) % SeqMod
    /\ rr_log' = Append(rr_log, PickThread(seq_num))
    /\ reqs' = [reqs EXCEPT ![callers[c].req].sn = seq_num,
                            ![callers[c].req].target = PickThread(seq_num)]
    /\ callers' = [callers EXCEPT ![c].pc = "exec_add", ![c].idx = PickThread(seq_num)]
    /\ UNCHANGED <<thread_num, conn_per_thread, status_, work_threads_, thread, wpc,
                   handle_open, async_pending, batch, exit_op, local_seq, inflight,
                   app_log, disp_log, join_count, bad_send, nreq, nstart, lost_race>>

\* Execute(), under the target's mux: append and signal, or, when request_vec
\* is nullptr, callback(nullptr) on the caller's thread.
ExecuteAdd(c) ==
    LET w == callers[c].idx
        r == callers[c].req
        wt == work_threads_[w]
    IN  /\ callers[c].pc = "exec_add"
        /\ IF wt.request_vec # NullVec
           THEN /\ work_threads_' = [work_threads_ EXCEPT
                        ![w].request_vec = NewVec(EmplaceBack(wt.request_vec[1], r))]
                /\ app_log' = [app_log EXCEPT ![w] = Append(@, r)]
                /\ reqs' = [reqs EXCEPT ![r].appended = TRUE]
                /\ async_pending' = [async_pending EXCEPT ![w] = @ \/ AsyncSendUnlock(wt)]
                /\ bad_send' = (bad_send \/ (AsyncSendUnlock(wt) /\ ~handle_open[w]))
           ELSE /\ reqs' = Fail(reqs, r, CallerThread(c), "reject")
                /\ UNCHANGED <<work_threads_, app_log, async_pending, bad_send>>
        /\ callers' = [callers EXCEPT ![c] = Idle]
        /\ UNCHANGED <<thread_num, conn_per_thread, status_, seq_num, thread, wpc,
                       handle_open, batch, exit_op, local_seq, inflight, rr_log,
                       disp_log, join_count, nreq, nstart, lost_race>>

\* ----------------------------------------------------------- DoStopOrJoin
\* A call is past the status transition of DoStopOrJoin.
ShuttingDown(c) == callers[c].pc \in {"sj_send", "sj_join", "sj_set", "sj_ret"}

\* DoStopOrJoin(op): status_ goes from kStarted to op in one atomic step; a call
\* that finds another status fails with an error at once and touches nothing.
DoStopOrJoin(c, op) ==
    /\ callers[c].pc = "idle"
    /\ NoStart
    /\ IF status_ = kStarted
       THEN /\ status_' = op
            /\ callers' = [callers EXCEPT ![c] =
                    [pc |-> "sj_send", req |-> 0, idx |-> 0, op |-> op]]
            /\ UNCHANGED lost_race
       ELSE /\ lost_race' = (lost_race \/ \E c2 \in Callers : ShuttingDown(c2))
            /\ UNCHANGED <<status_, callers>>
    /\ UNCHANGED <<thread_num, conn_per_thread, seq_num, work_threads_, thread, wpc,
                   handle_open, async_pending, batch, exit_op, local_seq, inflight,
                   reqs, rr_log, app_log, disp_log, join_count, bad_send, nreq, nstart>>

\* Stop()
Stop(c) == DoStopOrJoin(c, kStop)

\* Join()
Join(c) == DoStopOrJoin(c, kJoin)

\* DoStopOrJoin(): AsyncSend() to the next work thread.
StopOrJoinSend(c) ==
    LET w == callers[c].idx
        wt == work_threads_[w]
    IN  /\ callers[c].pc = "sj_send"
        /\ async_pending' = [async_pending EXCEPT ![w] = @ \/ AsyncSend(wt)]
        /\ bad_send' = (bad_send \/ (AsyncSend(wt) /\ ~handle_open[w]))
        /\ callers' = [callers EXCEPT ![c] =
                IF w + 1 < thread_num THEN [@ EXCEPT !.idx = w + 1]
                ELSE [@ EXCEPT !.pc = "sj_join", !.idx = 0]]
        /\ UNCHANGED <<thread_num, conn_per_thread, status_, seq_num, work_threads_,
                       thread, wpc, handle_open, batch, exit_op, local_seq, inflight,
                       reqs, rr_log, app_log, disp_log, join_count, nreq, nstart, lost_race>>

\* Mutant of ThreadJoinReturns: the thread is not waited for.
ThreadJoinNoWait(pos) == TRUE

\* thread.join() returns once the thread function has returned.
ThreadJoinReturns(pos) == pos = "done"

\* JoinAllThread(), one round of its loop: skip a WorkThread that was not
\* started, join() the others.
JoinAllThread(c) ==
    LET w == callers[c].idx
        wt == work_threads_[w]
    IN  /\ callers[c].pc = "sj_join"
        /\ IF ~wt.started
           THEN UNCHANGED <<thread, join_count>>
           ELSE /\ ThreadJoinReturns(wpc[w])
                /\ thread' = [thread EXCEPT ![w] = "joined"]
                /\ join_count' = [join_count EXCEPT ![w] = @ + 1]
        /\ callers' = [callers EXCEPT ![c] =
                IF w + 1 < thread_num THEN [@ EXCEPT !.idx = w + 1]
                ELSE [@ EXCEPT !.pc = "sj_set", !.idx = 0]]
        /\ UNCHANGED <<thread_num, conn_per_thread, status_, seq_num, work_threads_, wpc,
                       handle_open, async_pending, batch, exit_op, local_seq, inflight,
                       reqs, rr_log, app_log, disp_log, bad_send, nreq, nstart, lost_race>>

\* DoStopOrJoin(): SetStatus(kInitial).
StopOrJoinSetInitial(c) ==
    /\ callers[c].pc = "sj_set"
    /\ status_' = SetStatus(kInitial)
    /\ callers' = [callers EXCEPT ![c].pc = "sj_ret"]
    /\ UNCHANGED <<thread_num, conn_per_thread, seq_num, work_threads_, thread, wpc,
                   handle_open, async_pending, batch, exit_op, local_seq, inflight,
                   reqs, rr_log, app_log, disp_log, join_count, bad_send, nreq, nstart, lost_race>>

\* DoStopOrJoin() returns.
StopOrJoinReturn(c) ==
    /\ callers[c].pc = "sj_ret"
    /\ callers' = [callers EXCEPT ![c] = Idle]
    /\ UNCHANGED <<thread_num, conn_per_thread, status_, seq_num, work_threads_, thread,
                   wpc, handle_open, async_pending, batch, exit_op, local_seq, inflight,
                   reqs, rr_log, app_log, disp_log, join_count, bad_send, nreq, nstart, lost_race>>

\* ------------------------------------------------------------ work thread
\* WorkThreadMain(), startup: the loop, the connections and the uv_async_t are
\* built on the work thread (uv_async_init); nothing is published yet.
WorkThreadInit(w) ==
    /\ wpc[w] = "init"
    /\ handle_open' = [handle_open EXCEPT ![w] = TRUE]
    /\ wpc' = [wpc EXCEPT ![w] = "built"]
    /\ UNCHANGED <<thread_num, conn_per_thread, status_, seq_num, work_threads_, thread,
                   async_pending, batch, exit_op, local_seq, inflight, callers, reqs,
                   rr_log, app_log, disp_log, join_count, bad_send, nreq, nstart, lost_race>>

\* WorkThreadMain(), under mux: async_handle and request_vec are published and
\* the status becomes kRunning; then the thread enters uv_run().
WorkThreadMain(w) ==
    /\ wpc[w] = "built"
    /\ work_threads_' = [work_threads_ EXCEPT
            ![w].async_handle = TRUE,
            ![w].request_vec = NewVec(<<>>),
            ![w].status = kRunning]
    /\ wpc' = [wpc EXCEPT ![w] = "loop"]
    /\ UNCHANGED <<thread_num, conn_per_thread, status_, seq_num, thread, handle_open,
                   async_pending, batch, exit_op, local_seq, inflight, callers, reqs,
                   rr_log, app_log, disp_log, join_count, bad_send, nreq, nstart, lost_race>>

\* The requests of a sequence, as a set.
Range(q) == {q[i] : i \in 1..Len(q)}

\* Mutant of SwapRequestVec: the requests are copied out, not swapped out.
CopyRequestVec(vec) == [taken |-> vec[1], left |-> vec]

\* request_vec swapped with a fresh empty vector: what the work thread takes
\* and what stays behind.
SwapRequestVec(vec) == [taken |-> vec[1], left |-> NewVec(<<>>)]

\* OnAsyncHandle(), under mux.  Client kStarted: swap request_vec for an empty
\* vector.  Otherwise shut down: kExiting, request_vec and async_handle become
\* nullptr; the uv_async_t itself is closed later, when the loop is released.
OnAsyncHandle(w) ==
    LET wt == work_threads_[w]
        taken == SwapRequestVec(wt.request_vec).taken
    IN  /\ wpc[w] = "loop"
        /\ async_pending[w]
        /\ async_pending' = [async_pending EXCEPT ![w] = FALSE]
        /\ batch' = [batch EXCEPT ![w] = taken]
        /\ IF GetStatus = kStarted
           THEN /\ work_threads_' = [work_threads_ EXCEPT
                        ![w].request_vec = SwapRequestVec(wt.request_vec).left]
                /\ wpc' = [wpc EXCEPT ![w] = IF taken = <<>> THEN "loop" ELSE "drain"]
                /\ UNCHANGED <<exit_op, reqs>>
           ELSE /\ work_threads_' = [work_threads_ EXCEPT
                        ![w].status = kExiting,
                        ![w].request_vec = NullVec,
                        ![w].async_handle = FALSE]
                /\ exit_op' = [exit_op EXCEPT ![w] = GetStatus]
                /\ reqs' = [r \in ReqIds |->
                        IF r \in Range(taken) THEN [reqs[r] EXCEPT !.snap = GetStatus]
                        ELSE reqs[r]]
                /\ wpc' = [wpc EXCEPT ![w] = "shutdown"]
        /\ UNCHANGED <<thread_num, conn_per_thread, status_, seq_num, thread, handle_open,
                       local_seq, inflight, callers, rr_log, app_log, disp_log,
                       join_count, bad_send, nreq, nstart, lost_race>>

\* Mutant of PickConn: always the first connection.
PickConnFirst(n) == 0

\* The connection the work thread's counter selects.
PickConn(n) == n % conn_per_thread

\* Mutant of ConnOwner: every work thread sends on the connections of thread 0.
ConnOwnerShared(w) == 0

\* The work thread whose loop the connections used by work thread w are bound to.
ConnOwner(w) == w

\* A drained request is handed to the next connection (redisAsyncCommandArgv).
Dispatch(w) ==
    LET r == Head(batch[w])
        k == PickConn(local_seq[w])
    IN  /\ \/ wpc[w] = "drain"
           \/ wpc[w] = "shutdown" /\ exit_op[w] # kStop
        /\ batch[w] # <<>>
        /\ batch' = [batch EXCEPT ![w] = Tail(@)]
        /\ inflight' = [inflight EXCEPT ![ConnOwner(w)][k] = Append(@, r)]
        /\ local_seq' = [local_seq EXCEPT ![w] = @ + 1]
        /\ disp_log' = [disp_log EXCEPT ![w] = Append(@, r)]
        /\ reqs' = [reqs EXCEPT ![r].conn = k, ![r].lseq = local_seq[w]]
        /\ wpc' = [wpc EXCEPT ![w] =
                IF @ = "drain" /\ Tail(batch[w]) = <<>> THEN "loop" ELSE @]
        /\ UNCHANGED <<thread_num, conn_per_thread, status_, seq_num, work_threads_,
                       thread, handle_open, async_pending, exit_op, callers, rr_log,
                       app_log, join_count, bad_send, nreq, nstart, lost_race>>

\* Stop: a request of the last request_vec is failed, not sent.
FailUndispatched(w) ==
    LET r == Head(batch[w])
    IN  /\ wpc[w] = "shutdown"
        /\ exit_op[w] = kStop
        /\ batch[w] # <<>>
        /\ batch' = [batch EXCEPT ![w] = Tail(@)]
        /\ reqs' = Fail(reqs, r, WorkerThread(w), "drain")
        /\ UNCHANGED <<thread_num, conn_per_thread, status_, seq_num, work_threads_,
                       thread, wpc, handle_open, async_pending, exit_op, local_seq,
                       inflight, callers, rr_log, app_log, disp_log, join_count,
                       bad_send, nreq, nstart, lost_race>>

\* OnRedisReply(): the oldest request of a connection completes, with a reply
\* or, on a connection error, with nullptr.
OnRedisReply(w, k, reply) ==
    LET r == Head(inflight[w][k])
    IN  /\ wpc[w] \in {"loop", "shutdown"}
        /\ batch[w] = <<>>
        /\ inflight[w][k] # <<>>
        /\ inflight' = [inflight EXCEPT ![w][k] = Tail(@)]
        /\ reqs' = Success(reqs, r, reply, WorkerThread(w))
        /\ UNCHANGED <<thread_num, conn_per_thread, status_, seq_num, work_threads_,
                       thread, wpc, handle_open, async_pending, batch, exit_op,
                       local_seq, callers, rr_log, app_log, disp_log,
                       join_count, bad_send, nreq, nstart, lost_race>>

\* WorkThreadMain() returns: the loop has nothing left to run; the uv_async_t,
\* the connections and the loop are released (uv_close).
WorkThreadExit(w) ==
    /\ wpc[w] = "shutdown"
    /\ batch[w] = <<>>
    /\ \A k \in Conns : inflight[w][k] = <<>>
    /\ handle_open' = [handle_open EXCEPT ![w] = FALSE]
    /\ wpc' = [wpc EXCEPT ![w] = "done"]
    /\ UNCHANGED <<thread_num, conn_per_thread, status_, seq_num, work_threads_, thread,
                   async_pending, batch, exit_op, local_seq, inflight,
                   callers, reqs, rr_log, app_log, disp_log, join_count, bad_send,
                   nreq, nstart, lost_race>>

\* ------------------------------------------------------------------- Next
CallerNext(c) ==
    \/ StartSpawn(c)
    \/ StartDone(c)
    \/ ExecuteCheck(c)
    \/ ExecuteReject(c)
    \/ ExecutePick(c)
    \/ ExecuteAdd(c)
    \/ Stop(c)
    \/ Join(c)
    \/ StopOrJoinSend(c)
    \/ JoinAllThread(c)
    \/ StopOrJoinSetInitial(c)
    \/ StopOrJoinReturn(c)

WorkerNext(w) ==
    \/ WorkThreadInit(w)
    \/ WorkThreadMain(w)
    \/ OnAsyncHandle(w)
    \/ Dispatch(w)
    \/ FailUndispatched(w)
    \/ \E k \in Conns, reply \in {"reply", "null"} : OnRedisReply(w, k, reply)
    \/ WorkThreadExit(w)

Next ==
    \/ \E c \in Callers : CallerNext(c)
    \/ \E w \in Workers : WorkerNext(w)

Spec == Init /\ [][Next]_vars

\* The client after SeqMod - 1 Execute calls were accepted in earlier use:
\* seq_num is at its maximum, thread_num does not divide 2^SeqBits.
InitWrap ==
    /\ thread_num = WrapThreads
    /\ conn_per_thread = 1
    /\ status_ = kInitial
    /\ seq_num = SeqMod - 1
    /\ work_threads_ = [w \in Workers |-> WorkThread]
    /\ thread = [w \in Workers |-> "none"]
    /\ wpc = [w \in Workers |-> "none"]
    /\ handle_open = [w \in Workers |-> FALSE]
    /\ async_pending = [w \in Workers |-> FALSE]
    /\ batch = [w \in Workers |-> <<>>]
    /\ exit_op = [w \in Workers |-> kInitial]
    /\ local_seq = [w \in Workers |-> 0]
    /\ inflight = [w \in Workers |-> [k \in Conns |-> <<>>]]
    /\ callers = [c \in Callers |-> Idle]
    /\ reqs = [r \in ReqIds |-> NoReq]
    /\ rr_log = <<>>
    /\ app_log = [w \in Workers |-> <<>>]
    /\ disp_log = [w \in Workers |-> <<>>]
    /\ join_count = [w \in Workers |-> 0]
    /\ bad_send = FALSE
    /\ lost_race = FALSE
    /\ nreq = 0
    /\ nstart = 0

SpecWrap == InitWrap /\ [][Next]_vars

\* Start() called again while the client is kStarted.  The header leaves this
\* undefined ("Start() should be called once only"), the design calls for a
\* reported error: either the call fails and changes nothing, or the body of
\* Start() runs again over the live pool.
StartAgain(c) ==
    /\ Quiet
    /\ status_ = kStarted
    /\ nstart < MaxCycles
    /\ nstart' = nstart + 1
    /\ \/ UNCHANGED <<work_threads_, thread, wpc, handle_open, async_pending, batch,
                      exit_op, local_seq, inflight, join_count, callers>>
       \/ /\ work_threads_' = [w \in Workers |->
                  IF w < thread_num THEN [WorkThread EXCEPT !.started = TRUE] ELSE WorkThread]
          /\ thread' = [w \in Workers |-> IF w < thread_num THEN "joinable" ELSE "none"]
          /\ wpc' = [w \in Workers |-> IF w < thread_num THEN "init" ELSE "none"]
          /\ handle_open' = [w \in Workers |-> FALSE]
          /\ async_pending' = [w \in Workers |-> FALSE]
          /\ batch' = [w \in Workers |-> <<>>]
          /\ exit_op' = [w \in Workers |-> kInitial]
          /\ local_seq' = [w \in Workers |-> 0]
          /\ inflight' = [w \in Workers |-> [k \in Conns |-> <<>>]]
          /\ join_count' = [w \in Workers |-> 0]
          /\ callers' = [callers EXCEPT ![c].pc = "start_wait"]
    /\ UNCHANGED <<thread_num, conn_per_thread, status_, seq_num, reqs, rr_log,
                   app_log, disp_log, bad_send, nreq, lost_race>>

\* The client used against the contract of Start(): one work thread, one connection.
InitAgain == Init /\ thread_num = 1 /\ conn_per_thread = 1

NextAgain == Next \/ \E c \in Callers : StartAgain(c)

SpecAgain == InitAgain /\ [][NextAgain]_vars

\* One cycle of Start .. Stop/Join, for the liveness check.
LiveNext == Next /\ nstart' <= LiveCycles

\* Each work thread is an OS thread that keeps being scheduled, and its loop
\* delivers every pending wakeup and every reply or connection error.
FairSpec == Init /\ [][LiveNext]_vars /\ \A w \in Workers : WF_vars(WorkerNext(w))

\* ================================================================ claims
\* Where a request is right now.
InVec(r) ==
    \E w \in Workers :
        /\ work_threads_[w].request_vec # NullVec
        /\ r \in Range(work_threads_[w].request_vec[1])
InBatch(r) == \E w \in Workers : r \in Range(batch[w])
InFlight(r) == \E w \in Workers, k \in Conns : r \in Range(inflight[w][k])
\* The Execute call of request r has returned.
Returned(r) == reqs[r].obs # -1 /\ \A c \in Callers : callers[c].req # r
\* The callback of r ran exactly once, with how it came about.
RanOnce(r, via) == Len(reqs[r].cbs) = 1 /\ reqs[r].cbs[1].via = via

\* C1: no request's callback is ever invoked more than once, whichever way it
\* is invoked (reject on the caller thread, Stop drain, normal completion).
C1_CallbackAtMostOnce == \A r \in ReqIds : Len(reqs[r].cbs) <= 1

\* C1 witness: three requests, one rejected, one failed by the Stop drain, one
\* completed, each with one invocation.
C1_Witness ==
    \E r1, r2, r3 \in ReqIds :
        RanOnce(r1, "reject") /\ RanOnce(r2, "drain") /\ RanOnce(r3, "reply")

\* C2: every request appended to a request_vec eventually has its callback
\* invoked, under fair scheduling of the work threads, however the wakeups
\* coalesce and whenever Stop() or Join() starts.
C2_NoRequestLost ==
    \A r \in ReqIds : reqs[r].appended ~> (Len(reqs[r].cbs) >= 1)

\* C2 witness: two requests sat in one request_vec behind a single pending
\* wakeup while a Stop was under way, and both have had their callback.
C2_Witness ==
    \E r1, r2 \in ReqIds :
        /\ r1 # r2
        /\ reqs[r1].appended /\ reqs[r2].appended
        /\ reqs[r1].target = reqs[r2].target
        /\ reqs[r1].snap = kStop /\ reqs[r2].snap = kStop
        /\ Len(reqs[r1].cbs) = 1 /\ Len(reqs[r2].cbs) = 1

C4_StopDrain ==
    \A r \in ReqIds :
        /\ reqs[r].snap = kStop =>
            /\ reqs[r].conn = -1 /\ ~InFlight(r)
            /\ ~InBatch(r) =>
                reqs[r].cbs = <<Invocation("null", WorkerThread(reqs[r].target), "drain")>>
        /\ reqs[r].conn # -1 =>
            /\ \A i \in 1..Len(reqs[r].cbs) : reqs[r].cbs[i].via = "reply"
            /\ ~InFlight(r) => RanOnce(r, "reply")
            /\ wpc[reqs[r].target] = "done" => ~InFlight(r)

\* C4 witness: a work thread that handled a Stop has failed a queued request
\* while a request dispatched earlier is still awaiting its reply.
C4_Witness ==
    \E w \in Workers, r1, r2 \in ReqIds :
        /\ wpc[w] = "shutdown" /\ exit_op[w] = kStop
        /\ reqs[r1].snap = kStop /\ reqs[r1].target = w /\ RanOnce(r1, "drain")
        /\ reqs[r2].target = w /\ reqs[r2].conn # -1 /\ InFlight(r2)

\* C5: a request that is in request_vec when its work thread handles the Join
\* is dispatched to a connection and completes through OnRedisReply; it is never
\* failed by the drain.
C5_JoinDrain ==
    \A r \in ReqIds :
        /\ reqs[r].snap = kJoin =>
            /\ \A i \in 1..Len(reqs[r].cbs) : reqs[r].cbs[i].via = "reply"
            /\ ~InBatch(r) => reqs[r].conn # -1
            /\ (~InBatch(r) /\ ~InFlight(r)) => RanOnce(r, "reply")
            /\ wpc[reqs[r].target] = "done" => (~InBatch(r) /\ ~InFlight(r))
        /\ (\E i \in 1..Len(reqs[r].cbs) : reqs[r].cbs[i].via = "drain") =>
                reqs[r].snap = kStop

\* C5 witness: a work thread ended by Join has finished, and a request taken
\* from its last request_vec completed with a reply.
C5_Witness ==
    \E w \in Workers, r \in ReqIds :
        /\ wpc[w] = "done" /\ exit_op[w] = kJoin
        /\ reqs[r].snap = kJoin /\ reqs[r].target = w
        /\ reqs[r].cbs = <<Invocation("reply", WorkerThread(w), "reply")>>

\* C6: when Stop() or Join() returns, every started work thread has ended and
\* was joined, status_ is kInitial, every request_vec and async_handle is
\* nullptr, the uv_async_t is closed, and no accepted request awaits its callback.
C6_ReturnAfterShutdown ==
    \A c \in Callers :
        callers[c].pc = "sj_ret" =>
            /\ status_ = kInitial
            /\ \A w \in Workers :
                /\ work_threads_[w].request_vec = NullVec
                /\ ~work_threads_[w].async_handle
                /\ ~handle_open[w]
                /\ work_threads_[w].started => (wpc[w] = "done" /\ thread[w] = "joined")
                /\ batch[w] = <<>>
                /\ \A k \in Conns : inflight[w][k] = <<>>
            /\ \A r \in ReqIds : reqs[r].appended => Len(reqs[r].cbs) = 1

\* C6 witness: a Stop and a Join have each returned with accepted requests behind them.
C6_Witness ==
    \E c \in Callers, r \in ReqIds :
        /\ callers[c].pc = "sj_ret"
        /\ nstart = 2
        /\ reqs[r].appended /\ r > 1 /\ reqs[r - 1].obs = kInitial /\ nreq = r
        /\ \E w \in Workers : wpc[w] = "done" /\ thread[w] = "joined"

C8_RoundRobinDistinct ==
    \A i, j \in 1..Len(rr_log) :
        (i < j /\ j - i < thread_num) => rr_log[i] # rr_log[j]

\* Position of request r in the log q (0: not in it).
Pos(q, r) == IF r \in Range(q) THEN CHOOSE i \in 1..Len(q) : q[i] = r ELSE 0

\* C9: within one work thread, if A was appended to request_vec before B and B
\* was dispatched, then A was dispatched before B (or was failed by a Stop drain
\* and so never dispatched); dispatch order follows append order.
C9_FifoWithinWorker ==
    \A w \in Workers :
        \A i, j \in 1..Len(app_log[w]) :
            (i < j /\ Pos(disp_log[w], app_log[w][j]) # 0) =>
                \/ /\ Pos(disp_log[w], app_log[w][i]) # 0
                   /\ Pos(disp_log[w], app_log[w][i]) < Pos(disp_log[w], app_log[w][j])
                \/ reqs[app_log[w][i]].snap = kStop

\* C9 witness: a request was appended to request_vec while the work thread was
\* still dispatching the batch it had drained before.
C9_Witness ==
    \E w \in Workers :
        /\ wpc[w] = "drain"
        /\ Len(disp_log[w]) >= 1
        /\ batch[w] # <<>>
        /\ work_threads_[w].request_vec # NullVec
        /\ work_threads_[w].request_vec[1] # <<>>

\* C10: in every cycle, while Start() runs nothing of an earlier cycle is left
\* (no queued, drained or in-flight request, no kExiting flag, no joined
\* thread handle, no pending wakeup), and whenever the client is kStarted every
\* configured work thread is running with a joinable thread, a non-null
\* request_vec and async_handle and an open uv_async_t, so that an Execute is
\* accepted; what is queued or in flight has not had its callback yet.
C10_Restart ==
    /\ \A c \in Callers : callers[c].pc = "start_wait" =>
        \A w \in Workers :
            /\ work_threads_[w].status \in {kUnknown, kRunning}
            /\ work_threads_[w].request_vec \in {NullVec, NewVec(<<>>)}
            /\ batch[w] = <<>>
            /\ \A k \in Conns : inflight[w][k] = <<>>
            /\ ~async_pending[w]
            /\ join_count[w] = 0
            /\ exit_op[w] = kInitial
            /\ thread[w] # "joined"
    /\ status_ = kStarted =>
        /\ \A w \in Workers : w < thread_num =>
            /\ work_threads_[w].started
            /\ work_threads_[w].status = kRunning
            /\ work_threads_[w].request_vec # NullVec
            /\ work_threads_[w].async_handle
            /\ handle_open[w]
            /\ thread[w] = "joinable"
            /\ join_count[w] = 0
            /\ exit_op[w] = kInitial
            /\ wpc[w] \in {"loop", "drain"}
        /\ \A r \in ReqIds : (InVec(r) \/ InBatch(r) \/ InFlight(r)) => reqs[r].cbs = <<>>

\* C10 witness: in a second cycle, after a Stop failed a queued request of the
\* first, the client is kStarted and a request of the second cycle completed.
C10_Witness ==
    \E r1, r2 \in ReqIds :
        /\ nstart = 2 /\ status_ = kStarted
        /\ RanOnce(r1, "drain")
        /\ r1 < r2 - 1 /\ reqs[r2 - 1].obs = kInitial
        /\ reqs[r2].cbs = <<Invocation("reply", WorkerThread(reqs[r2].target), "reply")>>

\* C11: a Start() made while the client is kStarted fails and changes nothing:
\* the status stays kStarted, the WorkThreads, their request_vec, what they have
\* drained or sent and their threads are untouched, and no thread is spawned.
C11_SecondStartRejected ==
    [][(status_ = kStarted /\ nstart' = nstart + 1) =>
            /\ status_' = kStarted
            /\ work_threads_' = work_threads_
            /\ thread' = thread
            /\ wpc' = wpc
            /\ handle_open' = handle_open
            /\ async_pending' = async_pending
            /\ batch' = batch
            /\ inflight' = inflight
            /\ callers' = callers]_vars

\* C12: every callback invocation runs on the thread its outcome determines:
\* for a request that entered no request_vec (status not kStarted, or
\* request_vec found nullptr), the thread making the Execute call; for a request
\* of the last request_vec under Stop, the work thread that owned that
\* request_vec; for every other request, the work thread owning the connection
\* the request is in flight on.  No other thread, the one in Stop()/Join()
\* included, runs a callback.
C12_CallbackThread ==
    [][\A r \in ReqIds : reqs'[r].cbs # reqs[r].cbs =>
        /\ Len(reqs'[r].cbs) = Len(reqs[r].cbs) + 1
        /\ LET inv == reqs'[r].cbs[Len(reqs'[r].cbs)]
           IN  \/ /\ ~reqs[r].appended
                  /\ inv.reply = "null"
                  /\ \E c \in Callers :
                        /\ callers[c].req = r
                        /\ callers[c].pc \in {"exec_reject", "exec_add"}
                        /\ inv.thread = <<"caller", c>>
               \/ /\ reqs[r].appended /\ reqs[r].snap = kStop
                  /\ inv.reply = "null"
                  /\ r \in Range(batch[reqs[r].target])
                  /\ inv.thread = <<"worker", reqs[r].target>>
               \/ /\ reqs[r].appended /\ reqs[r].snap # kStop
                  /\ \E w \in Workers, k \in Conns :
                        /\ inflight[w][k] # <<>>
                        /\ Head(inflight[w][k]) = r
                        /\ reqs[r].conn = k
                        /\ reqs[r].target = w
                        /\ inv.thread = <<"worker", w>>]_vars

\* C12 witness: one request was rejected on its caller's thread after finding
\* request_vec nullptr, one was failed by the Stop drain on its work thread, one
\* completed on the work thread of its connection, while the Stop is under way.
C12_Witness ==
    \E r1, r2, r3 \in ReqIds, c \in Callers :
        /\ callers[c].pc = "sj_join" /\ callers[c].op = kStop
        /\ reqs[r1].obs = kStarted /\ ~reqs[r1].appended
        /\ Len(reqs[r1].cbs) = 1 /\ reqs[r1].cbs[1].thread[1] = "caller"
        /\ reqs[r1].cbs[1].thread[2] # c
        /\ reqs[r2].cbs = <<Invocation("null", <<"worker", reqs[r2].target>>, "drain")>>
        /\ reqs[r3].cbs = <<Invocation("reply", <<"worker", reqs[r3].target>>, "reply")>>

StepOfWorker(w) ==
    /\ callers' = callers
    /\ \A w2 \in Workers \ {w} :
        wpc'[w2] = wpc[w2] /\ batch'[w2] = batch[w2] /\ local_seq'[w2] = local_seq[w2]
    /\ \A r \in ReqIds :
        reqs'[r].cbs # reqs[r].cbs =>
            reqs'[r].cbs[Len(reqs'[r].cbs)].thread = <<"worker", w>>

NoDup(q) == \A i, j \in 1..Len(q) : q[i] = q[j] => i = j
\* How many request_vecs, drained batches and connections hold request r.
Places(r) ==
    Cardinality({w \in Workers : work_threads_[w].request_vec # NullVec
                                    /\ r \in Range(work_threads_[w].request_vec[1])})
    + Cardinality({w \in Workers : r \in Range(batch[w])})
    + Cardinality({<<w, k>> \in Workers \X Conns : r \in Range(inflight[w][k])})

\* C17: a wakeup handled while the client is kStarted takes the whole content
\* of request_vec in one step under mux and leaves an empty, non-null
\* request_vec.  A request appended around that step is in the drained batch or
\* in the new request_vec: until its callback runs it is in exactly one of
\* request_vec, the drained batch and a connection, and it is dispatched once.
C17_SwapDrain ==
    /\ [](\A r \in ReqIds :
            /\ Places(r) <= 1
            /\ (reqs[r].appended /\ reqs[r].cbs = <<>>) => Places(r) = 1
            /\ ~reqs[r].appended => Places(r) = 0
            /\ \A w \in Workers :
                /\ NoDup(disp_log[w]) /\ NoDup(batch[w])
                /\ work_threads_[w].request_vec # NullVec =>
                        NoDup(work_threads_[w].request_vec[1])
                /\ r \in Range(disp_log[w]) => reqs[r].target = w
            /\ (reqs[r].appended /\ reqs[r].snap # kStop /\ ~InVec(r) /\ ~InBatch(r)) =>
                    r \in Range(disp_log[reqs[r].target]))
    /\ [][\A w \in Workers :
            (wpc[w] = "loop" /\ async_pending[w] /\ ~async_pending'[w]
             /\ status_ = kStarted) =>
                /\ work_threads_'[w].request_vec = NewVec(<<>>)
                /\ batch'[w] = work_threads_[w].request_vec[1]
                /\ work_threads_'[w].async_handle
                /\ work_threads_'[w].status = kRunning]_vars

\* C17 witness: a work thread is dispatching a batch of two drained requests,
\* one already sent, while a third request sits in its new request_vec.
C17_Witness ==
    \E w \in Workers :
        /\ status_ = kStarted /\ wpc[w] = "drain"
        /\ Len(batch[w]) = 1
        /\ Len(disp_log[w]) = 1
        /\ work_threads_[w].request_vec # NullVec
        /\ Len(work_threads_[w].request_vec[1]) = 1
        /\ app_log[w] = disp_log[w] \o batch[w] \o work_threads_[w].request_vec[1]

\* C18: on each work thread the i-th request dispatched since its start
\* (counting from 0) goes to connection i mod conn_per_thread of that thread:
\* the index is in [0, conn_per_thread), conn_per_thread consecutive dispatches
\* use pairwise distinct connections, and a request is dispatched only on the
\* work thread in whose request_vec it was.
C18_ConnRoundRobin ==
    \A w \in Workers :
        /\ Len(disp_log[w]) >= local_seq[w]
        /\ \A i \in 1..local_seq[w] :
            reqs[disp_log[w][Len(disp_log[w]) - local_seq[w] + i]].lseq = i - 1
        /\ \A i \in 1..Len(disp_log[w]) :
            LET r == disp_log[w][i]
            IN  /\ reqs[r].target = w
                /\ r \in Range(app_log[w])
                /\ reqs[r].lseq >= 0
                /\ reqs[r].conn >= 0 /\ reqs[r].conn < conn_per_thread
                /\ reqs[r].conn = reqs[r].lseq % conn_per_thread
                /\ i = 1 => reqs[r].lseq = 0
                /\ i > 1 => \/ reqs[r].lseq = reqs[disp_log[w][i - 1]].lseq + 1
                            \/ reqs[r].lseq = 0
        /\ \A i, j \in 1..Len(disp_log[w]) :
            (/\ i < j /\ j - i < conn_per_thread
             /\ reqs[disp_log[w][j]].lseq - reqs[disp_log[w][i]].lseq = j - i) =>
                reqs[disp_log[w][i]].conn # reqs[disp_log[w][j]].conn
        /\ \A k \in Conns :
            \A r \in Range(inflight[w][k]) :
                reqs[r].target = w /\ reqs[r].conn = k /\ k < conn_per_thread

\* C18 witness: with two connections, one work thread has dispatched three
\* requests in a row: two are in flight on connection 0, one on connection 1.
C18_Witness ==
    \E w \in Workers :
        /\ conn_per_thread = 2
        /\ local_seq[w] = 3
        /\ Len(inflight[w][0]) = 2 /\ Len(inflight[w][1]) = 1
        /\ reqs[inflight[w][0][2]].lseq = 2

\* C19: the work thread computed from seq_num is always in [0, thread_num), and
\* consecutive values of seq_num select cyclically adjacent work threads, also
\* when seq_num wraps from its maximum to 0, for every thread_num > 1.
C19_WrapKeepsCycle ==
    /\ \A i \in 1..Len(rr_log) : rr_log[i] >= 0 /\ rr_log[i] < thread_num
    /\ \A i \in 1..(Len(rr_log) - 1) : rr_log[i + 1] = (rr_log[i] + 1) % thread_num

====
